---- MODULE Spec2Model ----
(***************************************************************************)
(* Model of the reachability engine of ipcheck-golang (src/main.go):       *)
(* detectAndPing, raceEcho, tcpConnectRace, doICMP, pingWithFamily and the *)
(* three counting semaphores semDNS / semICMP / semTCP.                    *)
(*                                                                         *)
(* Time is a discrete clock `now`.  One tick stands for roughly one        *)
(* second: the 5 s ceiling is 5 ticks, the 2.2 s stage timeout 2 ticks and *)
(* the 1.2 s dial timeout 1 tick, which keeps 2 stages + a remainder       *)
(* inside the ceiling as in the code.  Only the blocking operations take   *)
(* time (a lookup, a socket read, a dial, the ping command); every other   *)
(* step happens before the next tick, in any order with the other steps of *)
(* the same instant.  An operation with deadline D may still complete at   *)
(* instant D, where it races with the timer of D.                          *)
(*                                                                         *)
(* The attempts of one stage that probe different candidate addresses run  *)
(* the same code; they are kept as a bag of records, one copy per          *)
(* goroutine, and a goroutine that has exited is removed from the bag.     *)
(***************************************************************************)
EXTENDS Integers, FiniteSets, Sequences, Bags, TLC

\* ---- bounds of the model ----
\* longest value of an environment variable
MaxLen == 3
\* width of int, scaled down from 64 bits
IntBits == 8
NumReq == 2
\* candidate addresses probed in one run, over all requests and families
MaxAddrs == 2
\* domain inputs in one run (the other requests have literal inputs)
MaxDomains == 1
\* latest instant at which a request may arrive
MaxStart == 0
CapDNS == 1
CapICMP == 1
CapTCP == 2

\* ---- program constants (in ticks) ----
Overall == 5
StageTimeout == 2
DialTimeout == 1

\* the clock stops one tick after the last deadline
MaxTime == MaxStart + Overall + 1

Requests == 1..NumReq
Families == {"4", "6"}
Stages == {"icmp", "tcp"}
Gates == {"DNS", "ICMP", "TCP"}
Inputs == {"lit4", "lit6", "dom"}
ports == {"443", "80"}
PacketKinds == {"own_reply", "foreign_reply", "other"}

Min(a, b) == IF a <= b THEN a ELSE b

VARIABLES
    now,        \* the clock
    sem,        \* sem[g]: number of elements in the semaphore channel g
    pc,         \* pc[r]: position of detectAndPing for request r
    input,      \* input[r]: kind of the input string
    start,      \* start[r]: time detectAndPing was called
    parentDone, \* parentDone[r]: the caller's context is cancelled
    dns,        \* dns[r][f]: position of the lookup goroutine of family f
    nips,       \* nips[r][f]: len(v4.v) / len(v6.v)
    fam,        \* fam[r][f]: position of the family goroutine
    stg,        \* stg[r][f][s]: ctx2, done and once of raceEcho / tcpConnectRace
    att,        \* bag of running attempt goroutines
    flag,       \* flag[r][f]: v4ok / v6ok
    res,        \* res[r][f]: the returned pingResult field
    hist,       \* hist[r][f]: what happened in the family's chain (history)
    env,        \* env[g]: the environment variable MAX_DNS / MAX_ICMP / MAX_TCP
    cap         \* cap[g]: capacity of the channel made by init (0: not made yet)

vars == <<now, sem, pc, input, start, parentDone, dns, nips, fam, stg, att, flag, res, hist,
          env, cap>>

\* ---- getEnvInt (main.go 52-62) ----
MaxInt == 2 ^ (IntBits - 1) - 1

\* the characters an environment value is made of here
EnvChars == {" ", "-", "+", "0", "1", "9", "x"}

Digits == <<"0", "1", "2", "3", "4", "5", "6", "7", "8", "9">>

IsDigit(c) == \E i \in 1..10 : Digits[i] = c

DigitVal(c) == (CHOOSE i \in 1..10 : Digits[i] = c) - 1

\* an environment variable: unset, or set to a string
Unset == [set |-> FALSE, val |-> <<>>]

SetTo(v) == [set |-> TRUE, val |-> v]

\* os.Getenv: the value, or "" when the variable is unset
Getenv(x) == IF x.set THEN x.val ELSE <<>>

RECURSIVE TrimLeft(_)
TrimLeft(v) == IF v # <<>> /\ Head(v) = " " THEN TrimLeft(Tail(v)) ELSE v

RECURSIVE TrimRight(_)
TrimRight(v) ==
    IF v # <<>> /\ v[Len(v)] = " " THEN TrimRight(SubSeq(v, 1, Len(v) - 1)) ELSE v

\* strings.TrimSpace
TrimSpace(v) == TrimRight(TrimLeft(v))

\* the loop n = n*10 + d of strconv over the digits ds; -1 on a character
\* that is not a digit, MaxInt + 1 as soon as the value leaves the range of int
RECURSIVE ParseDigits(_, _)
ParseDigits(ds, n) ==
    IF ds = <<>> THEN n
    ELSE IF ~IsDigit(Head(ds)) THEN -1
    ELSE IF n * 10 + DigitVal(Head(ds)) > MaxInt THEN MaxInt + 1
    ELSE ParseDigits(Tail(ds), n * 10 + DigitVal(Head(ds)))

\* strconv.Atoi: an optional sign and decimal digits; err on an empty
\* string, a bare sign, another character (ErrSyntax) or a value out of the
\* range of int (ErrRange; -MaxInt - 1 is not reached by the values here)
Atoi(v) ==
    LET signed == v # <<>> /\ Head(v) \in {"+", "-"}
        ds == IF signed THEN Tail(v) ELSE v
        n == ParseDigits(ds, 0)
    IN  IF ds = <<>> \/ n < 0 \/ n > MaxInt
        THEN [i |-> 0, err |-> TRUE]
        ELSE [i |-> IF signed /\ Head(v) = "-" THEN 0 - n ELSE n, err |-> FALSE]

\* (without the test i <= 0)
getEnvIntAnySign(x, def) ==
    LET v == TrimSpace(Getenv(x)) IN
    IF v = <<>> THEN def
    ELSE IF Atoi(v).err THEN def ELSE Atoi(v).i

getEnvInt(x, def) ==
    LET v == TrimSpace(Getenv(x)) IN
    IF v = <<>> THEN def
    ELSE IF Atoi(v).err \/ Atoi(v).i <= 0 THEN def ELSE Atoi(v).i

\* the defaults of init (main.go 47-49)
Default(g) == CASE g = "DNS" -> 4096 [] g = "ICMP" -> 8192 [] OTHER -> 8192

\* ---- semaphores: init, acquire, release (main.go 46-73) ----
Capacity(g) == CASE g = "DNS" -> CapDNS [] g = "ICMP" -> CapICMP [] OTHER -> CapTCP

\* (a send that never blocks: the channel made without its capacity)
CanSendUnbounded(g) == sem[g] >= 0

\* case sem <- struct{}{} of acquire can proceed
CanSend(g) == sem[g] < Capacity(g)

SemSend(g) == [sem EXCEPT ![g] = @ + 1]

\* (an acquire without the ctx.Done case)
acquireNoCtx(done) == done /\ FALSE

\* case <-ctx.Done() of acquire can proceed: return false
acquireFalse(done) == done

release(g) == [sem EXCEPT ![g] = @ - 1]

\* ---- contexts ----
\* (a ceiling one tick too long)
ctxDeadlineLate(r) == start[r] + Overall + 1

\* ctx of detectAndPing: WithTimeout(parent, 5s), cancelled on return
ctxDeadline(r) == start[r] + Overall

ctxCancelled(r) == pc[r] = "returned" \/ parentDone[r]

ctxDone(r) == ctxCancelled(r) \/ now >= ctxDeadline(r)

NewStage(r) == [dl |-> Min(ctxDeadline(r), now + StageTimeout), cancelled |-> FALSE,
                done |-> 0, once |-> FALSE]

NoStage == [dl |-> 0, cancelled |-> FALSE, done |-> 0, once |-> FALSE]

\* ctx2 of a race stage: WithTimeout(ctx, 2200ms), cancelled when the stage
\* returns (its deadline is of no effect from then on and is reset)
ctx2Cancelled(r, f, s) == stg[r][f][s].cancelled \/ ctxCancelled(r)

ctx2Expired(r, f, s) == ~stg[r][f][s].cancelled /\ now >= stg[r][f][s].dl

ctx2Done(r, f, s) == ctx2Cancelled(r, f, s) \/ ctx2Expired(r, f, s)

\* ---- history ----
\* icmp, tcp, ping: the state of each stage; succ: some attempt returned
\* success; early: it did so before ctx was done (strictly before the overall deadline); inStage: it did so while the context
\* of its own stage was not done; icmpWin: an attempt of
\* raceEcho did so; tcp443: a connect to port 443 succeeded; starved: an
\* attempt gave up on a gate at its stage timeout while every slot of the
\* gate was held by attempts of the other family; held: time passed
\* between the end of the family's lookup, which returned addresses, and the
\* end of wg.Wait() (kept until raceEcho is called); pings: the number of
\* calls of pingWithFamily; pingHost, pingTag: the arguments of the last call
NoHist == [icmp |-> "none", tcp |-> "none", ping |-> "none",
           succ |-> FALSE, early |-> FALSE, inStage |-> FALSE, icmpWin |-> FALSE,
           tcp443 |-> FALSE, starved |-> FALSE, held |-> FALSE,
           pings |-> 0, pingHost |-> "-", pingTag |-> "-"]

\* the call pingWithFamily(ctx, input, "4") or pingWithFamily(ctx, input, "6")
\* (lines 165, 173, 220, 229): the host is the input string of the request,
\* the tag is the constant written in the goroutine of the family
PingCall(h, f) ==
    [h EXCEPT !.ping = "running", !.pings = @ + 1, !.pingHost = "input", !.pingTag = f]

Success(h, early, inStage) ==
    [h EXCEPT !.succ = TRUE, !.early = @ \/ early, !.inStage = @ \/ inStage]

\* pkt: the packet on which the doICMP of the attempt returned true
Attempt(r, f, s, p, ph, dl) ==
    [r |-> r, f |-> f, s |-> s, port |-> p, ph |-> ph, dl |-> dl, pkt |-> "-"]

Copies(e, n) == IF n = 0 THEN EmptyBag ELSE (e :> n)

Replace(b, old, new) == (b (-) SetToBag({old})) (+) SetToBag({new})

Remove(b, old) == b (-) SetToBag({old})

\* the process runs with MAX_DNS, MAX_ICMP and MAX_TCP set to the capacities
\* of the model, and init has made the three channels
EnvOfRun == [g \in Gates |-> SetTo(<<Digits[Capacity(g) + 1]>>)]

Init ==
    /\ now = 0
    /\ sem = [g \in Gates |-> 0]
    /\ pc = [r \in Requests |-> "idle"]
    /\ input = [r \in Requests |-> "dom"]
    /\ start = [r \in Requests |-> 0]
    /\ parentDone = [r \in Requests |-> FALSE]
    /\ dns = [r \in Requests |-> [f \in Families |-> "none"]]
    /\ nips = [r \in Requests |-> [f \in Families |-> 0]]
    /\ fam = [r \in Requests |-> [f \in Families |-> "none"]]
    /\ stg = [r \in Requests |-> [f \in Families |-> [s \in Stages |-> NoStage]]]
    /\ att = EmptyBag
    /\ flag = [r \in Requests |-> [f \in Families |-> 0]]
    /\ res = [r \in Requests |-> [f \in Families |-> "no"]]
    /\ hist = [r \in Requests |-> [f \in Families |-> NoHist]]
    /\ env = EnvOfRun
    /\ cap = [g \in Gates |-> getEnvInt(env[g], Default(g))]

\* ---- detectAndPing: entry (main.go 147-177, 188-211) ----
FamilyOf(in) == IF in = "lit6" THEN "6" ELSE "4"

RECURSIVE Sum(_, _)
Sum(g(_), S) == IF S = {} THEN 0 ELSE LET x == CHOOSE y \in S : TRUE IN g(x) + Sum(g, S \ {x})

\* addresses handed to the probes so far: the literal inputs and the lookup results
AddrsOf(r) == IF pc[r] # "idle" /\ input[r] # "dom" THEN 1 ELSE nips[r]["4"] + nips[r]["6"]

Used == Sum(AddrsOf, Requests)

Domains == Cardinality({r \in Requests : pc[r] # "idle" /\ input[r] = "dom"})

Start(r, in) ==
    /\ pc[r] = "idle"
    /\ now <= MaxStart
    /\ IF in = "dom" THEN Domains < MaxDomains ELSE Used < MaxAddrs
    /\ input' = [input EXCEPT ![r] = in]
    /\ start' = [start EXCEPT ![r] = now]
    /\ IF in = "dom"
       THEN /\ pc' = [pc EXCEPT ![r] = "dnsWait"]
            /\ dns' = [dns EXCEPT ![r] = [f \in Families |-> "acq"]]
            /\ fam' = fam
            /\ hist' = hist
       ELSE /\ pc' = [pc EXCEPT ![r] = "litWait"]
            /\ fam' = [fam EXCEPT ![r][FamilyOf(in)] = "icmp_open"]
            /\ hist' = [hist EXCEPT ![r][FamilyOf(in)].icmp = "running"]
            /\ dns' = dns
    /\ UNCHANGED <<env, cap, now, sem, parentDone, nips, stg, att, flag, res>>

\* the caller's context (c.Request.Context()) is cancelled
Cancel(r) ==
    /\ pc[r] \in {"dnsWait", "litWait", "raceWait"}
    /\ ~parentDone[r]
    /\ parentDone' = [parentDone EXCEPT ![r] = TRUE]
    /\ UNCHANGED <<env, cap, now, sem, pc, input, start, dns, nips, fam, stg, att, flag, res, hist>>

\* ---- the two lookup goroutines (main.go 192-211) ----
\* (an AAAA lookup that is started when the A lookup has ended)
DnsAcquireInTurn(r, f) ==
    /\ dns[r][f] = "acq"
    /\ f = "6" => dns[r]["4"] = "done"
    /\ CanSend("DNS")
    /\ sem' = SemSend("DNS")
    /\ dns' = [dns EXCEPT ![r][f] = "lookup"]
    /\ UNCHANGED <<env, cap, now, pc, input, start, parentDone, nips, fam, stg, att, flag, res, hist>>

\* acquire(ctx, semDNS), case sem <- struct{}{}: return true
DnsAcquire(r, f) ==
    /\ dns[r][f] = "acq"
    /\ CanSend("DNS")
    /\ sem' = SemSend("DNS")
    /\ dns' = [dns EXCEPT ![r][f] = "lookup"]
    /\ UNCHANGED <<env, cap, now, pc, input, start, parentDone, nips, fam, stg, att, flag, res, hist>>

DnsAcquireFail(r, f) ==
    /\ dns[r][f] = "acq"
    /\ acquireFalse(ctxDone(r))
    /\ dns' = [dns EXCEPT ![r][f] = "done"]
    /\ UNCHANGED <<env, cap, now, sem, pc, input, start, parentDone, nips, fam, stg, att, flag, res, hist>>

\* LookupIP returns n addresses (an error or a done context gives none),
\* then the deferred release and wg.Done run
DnsLookup(r, f, n) ==
    /\ dns[r][f] = "lookup"
    /\ ctxDone(r) => n = 0
    /\ Used + n <= MaxAddrs
    /\ nips' = [nips EXCEPT ![r][f] = n]
    /\ sem' = release("DNS")
    /\ dns' = [dns EXCEPT ![r][f] = "done"]
    /\ UNCHANGED <<env, cap, now, pc, input, start, parentDone, fam, stg, att, flag, res, hist>>

\* (a join that waits for one lookup only)
DnsJoinFirst(r) ==
    /\ pc[r] = "dnsWait"
    /\ \E f \in Families : dns[r][f] = "done"
    /\ pc' = [pc EXCEPT ![r] = "raceWait"]
    /\ fam' = [fam EXCEPT ![r] = [f \in Families |-> IF nips[r][f] > 0 THEN "race_start" ELSE "none"]]
    /\ UNCHANGED <<env, cap, now, sem, input, start, parentDone, dns, nips, stg, att, flag, res, hist>>

\* wg.Wait() of line 212, then the family goroutines are started (214-233)
DnsJoin(r) ==
    /\ pc[r] = "dnsWait"
    /\ \A f \in Families : dns[r][f] = "done"
    /\ pc' = [pc EXCEPT ![r] = "raceWait"]
    /\ fam' = [fam EXCEPT ![r] = [f \in Families |-> IF nips[r][f] > 0 THEN "race_start" ELSE "none"]]
    /\ UNCHANGED <<env, cap, now, sem, input, start, parentDone, dns, nips, stg, att, flag, res, hist>>

\* ---- doICMP (main.go 311-366) ----
\* ListenPacket, Marshal, SetDeadline, WriteTo and the first ctx check of the loop:
\* any of them may fail; with a done context the loop returns false
doICMPOpen(done) == IF done THEN {"false"} ELSE {"false", "read"}

\* line 361: any echo reply is accepted
IsEchoReply(k) == k \in {"own_reply", "foreign_reply"}

\* ReadFrom delivered packet k: an echo reply returns true, anything else
\* goes round the loop, where a done context returns false
doICMPRead(k, done) == IF IsEchoReply(k) THEN "true" ELSE IF done THEN "false" ELSE "read"

\* ---- literal-IP goroutine (main.go 163-176): doICMP(ctx, parsed) || pingWithFamily ----
LitOpen(r, f, o) ==
    /\ fam[r][f] = "icmp_open"
    /\ o \in doICMPOpen(ctxDone(r))
    /\ IF o = "read"
       THEN /\ fam' = [fam EXCEPT ![r][f] = "icmp_read"]
            /\ hist' = hist
       ELSE /\ fam' = [fam EXCEPT ![r][f] = "ping"]
            /\ hist' = [hist EXCEPT ![r][f] = PingCall([@ EXCEPT !.icmp = "false"], f)]
    /\ UNCHANGED <<env, cap, now, sem, pc, input, start, parentDone, dns, nips, stg, att, flag, res>>

LitRead(r, f, k) ==
    /\ fam[r][f] = "icmp_read"
    /\ now <= ctxDeadline(r)
    /\ LET o == doICMPRead(k, ctxDone(r)) IN
       /\ o # "read"
       /\ IF o = "true"
          THEN /\ fam' = [fam EXCEPT ![r][f] = "done"]
               /\ flag' = [flag EXCEPT ![r][f] = 1]
               /\ hist' = [hist EXCEPT ![r][f] =
                               [Success(@, ~ctxDone(r), TRUE) EXCEPT !.icmp = "true"]]
          ELSE /\ fam' = [fam EXCEPT ![r][f] = "ping"]
               /\ flag' = flag
               /\ hist' = [hist EXCEPT ![r][f] = PingCall([@ EXCEPT !.icmp = "false"], f)]
    /\ UNCHANGED <<env, cap, now, sem, pc, input, start, parentDone, dns, nips, stg, att, res>>

\* the socket deadline (the deadline of ctx) passes: ReadFrom fails
LitReadTimeout(r, f) ==
    /\ fam[r][f] = "icmp_read"
    /\ now >= ctxDeadline(r)
    /\ fam' = [fam EXCEPT ![r][f] = "ping"]
    /\ hist' = [hist EXCEPT ![r][f] = PingCall([@ EXCEPT !.icmp = "false"], f)]
    /\ UNCHANGED <<env, cap, now, sem, pc, input, start, parentDone, dns, nips, stg, att, flag, res>>

\* ---- pingWithFamily (main.go 376-402), then setV4/setV6 and wg.Done ----
\* (a success that sets the flags of both families)
pingWithFamilyAll(r, f, ok) ==
    /\ fam[r][f] = "ping"
    /\ ctxDone(r) => ~ok
    /\ fam' = [fam EXCEPT ![r][f] = "done"]
    /\ flag' = [flag EXCEPT ![r] = IF ok THEN [g \in Families |-> 1] ELSE @]
    /\ hist' = [hist EXCEPT ![r][f] =
                    IF ok THEN [Success(@, TRUE, TRUE) EXCEPT !.ping = "true"]
                    ELSE [@ EXCEPT !.ping = "false"]]
    /\ UNCHANGED <<env, cap, now, sem, pc, input, start, parentDone, dns, nips, stg, att, res>>

\* exec.CommandContext: a done context kills the command, Run returns an error
pingWithFamily(r, f, ok) ==
    /\ fam[r][f] = "ping"
    /\ ctxDone(r) => ~ok
    /\ fam' = [fam EXCEPT ![r][f] = "done"]
    /\ flag' = [flag EXCEPT ![r][f] = IF ok THEN 1 ELSE @]
    /\ hist' = [hist EXCEPT ![r][f] =
                    IF ok THEN [Success(@, TRUE, TRUE) EXCEPT !.ping = "true"]
                    ELSE [@ EXCEPT !.ping = "false"]]
    /\ UNCHANGED <<env, cap, now, sem, pc, input, start, parentDone, dns, nips, stg, att, res>>

\* ---- raceEcho (main.go 245-269) ----
\* (a racer that is started for a family without addresses too)
RaceEchoStartAny(r, f) ==
    /\ \/ fam[r][f] = "race_start"
       \/ pc[r] = "raceWait" /\ fam[r][f] = "none" /\ hist[r][f].icmp = "none"
    /\ stg' = [stg EXCEPT ![r][f]["icmp"] = NewStage(r)]
    /\ att' = att (+) Copies(Attempt(r, f, "icmp", "-", "acq", 0), nips[r][f])
    /\ fam' = [fam EXCEPT ![r][f] = "race_select"]
    /\ hist' = [hist EXCEPT ![r][f].icmp = "running", ![r][f].held = FALSE]
    /\ UNCHANGED <<env, cap, now, sem, pc, input, start, parentDone, dns, nips, flag, res>>

\* lines 246-262: ctx2, done, once, one goroutine per address
RaceEchoStart(r, f) ==
    /\ fam[r][f] = "race_start"
    /\ stg' = [stg EXCEPT ![r][f]["icmp"] = NewStage(r)]
    /\ att' = att (+) Copies(Attempt(r, f, "icmp", "-", "acq", 0), nips[r][f])
    /\ fam' = [fam EXCEPT ![r][f] = "race_select"]
    /\ hist' = [hist EXCEPT ![r][f].icmp = "running", ![r][f].held = FALSE]
    /\ UNCHANGED <<env, cap, now, sem, pc, input, start, parentDone, dns, nips, flag, res>>

\* (a stage that waits for all its attempts before it reads done)
RaceEchoTrueJoin(r, f) ==
    /\ fam[r][f] = "race_select"
    /\ stg[r][f]["icmp"].done > 0
    /\ \A e \in BagToSet(att) : ~(e.r = r /\ e.f = f /\ e.s = "icmp")
    /\ stg' = [stg EXCEPT ![r][f]["icmp"].done = @ - 1, ![r][f]["icmp"].cancelled = TRUE,
                            ![r][f]["icmp"].dl = 0]
    /\ fam' = [fam EXCEPT ![r][f] = "done"]
    /\ flag' = [flag EXCEPT ![r][f] = 1]
    /\ hist' = [hist EXCEPT ![r][f].icmp = "true"]
    /\ UNCHANGED <<env, cap, now, sem, pc, input, start, parentDone, dns, nips, att, res>>

\* lines 263-268, case <-done: return true; then setV4 and wg2.Done
RaceEchoTrue(r, f) ==
    /\ fam[r][f] = "race_select"
    /\ stg[r][f]["icmp"].done > 0
    /\ stg' = [stg EXCEPT ![r][f]["icmp"].done = @ - 1, ![r][f]["icmp"].cancelled = TRUE,
                            ![r][f]["icmp"].dl = 0]
    /\ fam' = [fam EXCEPT ![r][f] = "done"]
    /\ flag' = [flag EXCEPT ![r][f] = 1]
    /\ hist' = [hist EXCEPT ![r][f].icmp = "true"]
    /\ UNCHANGED <<env, cap, now, sem, pc, input, start, parentDone, dns, nips, att, res>>

\* case <-ctx2.Done(): return false; tcpConnectRace is called next
RaceEchoFalse(r, f) ==
    /\ fam[r][f] = "race_select"
    /\ ctx2Done(r, f, "icmp")
    /\ stg' = [stg EXCEPT ![r][f]["icmp"].cancelled = TRUE,
                            ![r][f]["icmp"].dl = 0]
    /\ fam' = [fam EXCEPT ![r][f] = "tcp_start"]
    /\ hist' = [hist EXCEPT ![r][f].icmp = "false"]
    /\ UNCHANGED <<env, cap, now, sem, pc, input, start, parentDone, dns, nips, att, flag, res>>

\* ---- tcpConnectRace (main.go 272-308) ----
TcpStart(r, f) ==
    /\ fam[r][f] = "tcp_start"
    /\ stg' = [stg EXCEPT ![r][f]["tcp"] = NewStage(r)]
    /\ att' = att (+) Copies(Attempt(r, f, "tcp", "443", "acq", 0), nips[r][f])
                  (+) Copies(Attempt(r, f, "tcp", "80", "acq", 0), nips[r][f])
    /\ fam' = [fam EXCEPT ![r][f] = "tcp_select"]
    /\ hist' = [hist EXCEPT ![r][f].tcp = "running"]
    /\ UNCHANGED <<env, cap, now, sem, pc, input, start, parentDone, dns, nips, flag, res>>

\* (one flag for both families instead of setV4 / setV6)
TcpTrueBoth(r, f) ==
    /\ fam[r][f] = "tcp_select"
    /\ stg[r][f]["tcp"].done > 0
    /\ stg' = [stg EXCEPT ![r][f]["tcp"].done = @ - 1, ![r][f]["tcp"].cancelled = TRUE,
                            ![r][f]["tcp"].dl = 0]
    /\ fam' = [fam EXCEPT ![r][f] = "done"]
    /\ flag' = [flag EXCEPT ![r] = [g \in Families |-> 1]]
    /\ hist' = [hist EXCEPT ![r][f].tcp = "true"]
    /\ UNCHANGED <<env, cap, now, sem, pc, input, start, parentDone, dns, nips, att, res>>

\* lines 300-307, case <-done: return true; then setV4 / setV6 and wg2.Done
TcpTrue(r, f) ==
    /\ fam[r][f] = "tcp_select"
    /\ stg[r][f]["tcp"].done > 0
    /\ stg' = [stg EXCEPT ![r][f]["tcp"].done = @ - 1, ![r][f]["tcp"].cancelled = TRUE,
                            ![r][f]["tcp"].dl = 0]
    /\ fam' = [fam EXCEPT ![r][f] = "done"]
    /\ flag' = [flag EXCEPT ![r][f] = 1]
    /\ hist' = [hist EXCEPT ![r][f].tcp = "true"]
    /\ UNCHANGED <<env, cap, now, sem, pc, input, start, parentDone, dns, nips, att, res>>

TcpFalse(r, f) ==
    /\ fam[r][f] = "tcp_select"
    /\ ctx2Done(r, f, "tcp")
    /\ stg' = [stg EXCEPT ![r][f]["tcp"].cancelled = TRUE,
                            ![r][f]["tcp"].dl = 0]
    /\ fam' = [fam EXCEPT ![r][f] = "ping"]
    /\ hist' = [hist EXCEPT ![r][f] = PingCall([@ EXCEPT !.tcp = "false"], f)]
    /\ UNCHANGED <<env, cap, now, sem, pc, input, start, parentDone, dns, nips, att, flag, res>>

\* ---- attempt goroutines of raceEcho (253-261) and tcpConnectRace (287-298) ----
GateOf(s) == IF s = "icmp" THEN "ICMP" ELSE "TCP"

\* the attempts that hold a slot of gate g (between acquire and release)
HeldBy(g) == {h \in BagToSet(att) : GateOf(h.s) = g /\ h.ph # "acq"}

\* the stage timeout fires on a waiting attempt while the gate is full and
\* every slot is held by the other family of the same request
StarvedByOther(e) ==
    /\ ~CanSend(GateOf(e.s))
    /\ ctx2Expired(e.r, e.f, e.s)
    /\ ~ctxDone(e.r)
    /\ \A h \in HeldBy(GateOf(e.s)) : h.r = e.r /\ h.f # e.f

\* acquire(ctx2, sem), case sem <- struct{}{}: return true
AttAcquire(e) ==
    /\ e.ph = "acq"
    /\ CanSend(GateOf(e.s))
    /\ sem' = SemSend(GateOf(e.s))
    /\ att' = Replace(att, e,
                 IF e.s = "icmp"
                 THEN [e EXCEPT !.ph = "open"]
                 ELSE [e EXCEPT !.ph = "dial",
                                !.dl = Min(now + DialTimeout, stg[e.r][e.f][e.s].dl)])
    /\ UNCHANGED <<env, cap, now, pc, input, start, parentDone, dns, nips, fam, stg, flag, res, hist>>

\* (the release deferred before the result of acquire is tested)
AttAcquireFailRelease(e) ==
    /\ e.ph = "acq"
    /\ acquireFalse(ctx2Done(e.r, e.f, e.s))
    /\ att' = Remove(att, e)
    /\ sem' = release(GateOf(e.s))
    /\ UNCHANGED <<env, cap, now, pc, input, start, parentDone, dns, nips, fam, stg, flag, res, hist>>

\* acquire(ctx2, sem), case <-ctx.Done(): return false; the goroutine returns
AttAcquireFail(e) ==
    /\ e.ph = "acq"
    /\ acquireFalse(ctx2Done(e.r, e.f, e.s))
    /\ att' = Remove(att, e)
    /\ hist' = [hist EXCEPT ![e.r][e.f].starved = @ \/ StarvedByOther(e)]
    /\ UNCHANGED <<env, cap, now, sem, pc, input, start, parentDone, dns, nips, fam, stg, flag, res>>

\* doICMP(ctx2, ip) up to the first ReadFrom
AttOpen(e, o) ==
    /\ e.ph = "open"
    /\ o \in doICMPOpen(ctx2Done(e.r, e.f, e.s))
    /\ IF o = "read"
       THEN /\ att' = Replace(att, e, [e EXCEPT !.ph = "read", !.dl = stg[e.r][e.f][e.s].dl])
            /\ sem' = sem
       ELSE /\ att' = Remove(att, e)
            /\ sem' = release("ICMP")
    /\ UNCHANGED <<env, cap, now, pc, input, start, parentDone, dns, nips, fam, stg, flag, res, hist>>

AttRead(e, k) ==
    /\ e.ph = "read"
    /\ now <= e.dl
    /\ LET o == doICMPRead(k, ctx2Done(e.r, e.f, e.s)) IN
       /\ o # "read"
       /\ IF o = "true"
          THEN /\ att' = Replace(att, e, [e EXCEPT !.ph = "sig", !.pkt = k])
               /\ sem' = sem
               /\ hist' = [hist EXCEPT ![e.r][e.f] =
                               [Success(@, ~ctxDone(e.r), ~ctx2Done(e.r, e.f, e.s))
                                   EXCEPT !.icmpWin = @ \/ ~ctx2Done(e.r, e.f, e.s)]]
          ELSE /\ att' = Remove(att, e)
               /\ sem' = release("ICMP")
               /\ hist' = hist
    /\ UNCHANGED <<env, cap, now, pc, input, start, parentDone, dns, nips, fam, stg, flag, res>>

\* (a read that fails at the deadline without the deferred release)
AttReadTimeoutNoRelease(e) ==
    /\ e.ph = "read"
    /\ now >= e.dl
    /\ att' = Remove(att, e)
    /\ UNCHANGED <<env, cap, now, sem, pc, input, start, parentDone, dns, nips, fam, stg, flag, res, hist>>

\* the socket deadline (the deadline of ctx2) passes: ReadFrom fails, doICMP
\* returns false and the deferred release(semICMP) runs
AttReadTimeout(e) ==
    /\ e.ph = "read"
    /\ now >= e.dl
    /\ att' = Remove(att, e)
    /\ sem' = release("ICMP")
    /\ UNCHANGED <<env, cap, now, pc, input, start, parentDone, dns, nips, fam, stg, flag, res, hist>>

\* d.DialContext(ctx2, ...) with Timeout 1200ms
AttDial(e, ok) ==
    /\ e.ph = "dial"
    /\ ok => (~ctx2Cancelled(e.r, e.f, e.s) /\ now <= e.dl)
    /\ IF ok
       THEN /\ att' = Replace(att, e, [e EXCEPT !.ph = "sig"])
            /\ sem' = sem
            /\ hist' = [hist EXCEPT ![e.r][e.f] =
                            [Success(@, ~ctxDone(e.r), ~ctx2Done(e.r, e.f, e.s))
                                EXCEPT !.tcp443 = @ \/ e.port = "443"]]
       ELSE /\ att' = Remove(att, e)
            /\ sem' = release("TCP")
            /\ hist' = hist
    /\ UNCHANGED <<env, cap, now, pc, input, start, parentDone, dns, nips, fam, stg, flag, res>>

\* (a success that is not signalled)
AttSignalNoSend(e) ==
    /\ e.ph = "sig"
    /\ att' = Remove(att, e)
    /\ sem' = release(GateOf(e.s))
    /\ UNCHANGED <<env, cap, now, pc, input, start, parentDone, dns, nips, fam, stg, flag, res, hist>>

\* (a send on done that is not guarded by once)
AttSignalNoOnce(e) ==
    /\ e.ph = "sig"
    /\ stg[e.r][e.f][e.s].done < 1
    /\ stg' = [stg EXCEPT ![e.r][e.f][e.s].done = @ + 1]
    /\ att' = Remove(att, e)
    /\ sem' = release(GateOf(e.s))
    /\ UNCHANGED <<env, cap, now, pc, input, start, parentDone, dns, nips, fam, flag, res, hist>>

\* once.Do(func() { done <- true }), then the deferred release
AttSignal(e) ==
    /\ e.ph = "sig"
    /\ LET st == stg[e.r][e.f][e.s] IN
       /\ st.once \/ st.done < 1
       /\ stg' = [stg EXCEPT ![e.r][e.f][e.s] =
                     IF st.once THEN st ELSE [st EXCEPT !.done = @ + 1, !.once = TRUE]]
    /\ att' = Remove(att, e)
    /\ sem' = release(GateOf(e.s))
    /\ UNCHANGED <<env, cap, now, pc, input, start, parentDone, dns, nips, fam, flag, res, hist>>

\* ---- detectAndPing: wg.Wait / wg2.Wait and the result (178-185, 234-241) ----
\* (a result that tells a deadline from a failure)
FieldOrTimeout(r, f) ==
    IF flag[r][f] = 1 THEN "ok" ELSE IF now >= ctxDeadline(r) THEN "timeout" ELSE "no"

\* res starts as {"no", "no"}; a field becomes "ok" when its flag is 1
Field(r, f) == IF flag[r][f] = 1 THEN "ok" ELSE "no"

\* (a return that does not wait for the family goroutines)
ReturnNoWait(r) ==
    /\ pc[r] \in {"litWait", "raceWait"}
    /\ res' = [res EXCEPT ![r] = [f \in Families |-> Field(r, f)]]
    /\ pc' = [pc EXCEPT ![r] = "returned"]
    /\ UNCHANGED <<env, cap, now, sem, input, start, parentDone, dns, nips, fam, stg, att, flag, hist>>

\* wg.Wait() / wg2.Wait(), then the map is built and returned
Return(r) ==
    /\ pc[r] \in {"litWait", "raceWait"}
    /\ \A f \in Families : fam[r][f] \in {"none", "done"}
    /\ res' = [res EXCEPT ![r] = [f \in Families |-> Field(r, f)]]
    /\ pc' = [pc EXCEPT ![r] = "returned"]
    /\ UNCHANGED <<env, cap, now, sem, input, start, parentDone, dns, nips, fam, stg, att, flag, hist>>

\* ---- time ----
\* a step that takes no time, or that a deadline or a cancellation forces, is pending
UrgentDns ==
    \E r \in Requests, f \in Families :
        \/ dns[r][f] = "acq" /\ (CanSend("DNS") \/ acquireFalse(ctxDone(r)))
        \/ dns[r][f] = "lookup" /\ ctxDone(r)

UrgentFam ==
    \E r \in Requests, f \in Families :
        \/ fam[r][f] \in {"icmp_open", "race_start", "tcp_start"}
        \/ fam[r][f] = "ping" /\ ctxDone(r)
        \/ fam[r][f] = "icmp_read" /\ now >= ctxDeadline(r)
        \/ fam[r][f] = "race_select" /\ (stg[r][f]["icmp"].done > 0 \/ ctx2Done(r, f, "icmp"))
        \/ fam[r][f] = "tcp_select" /\ (stg[r][f]["tcp"].done > 0 \/ ctx2Done(r, f, "tcp"))

UrgentAtt ==
    \E e \in BagToSet(att) :
        \/ e.ph = "acq" /\ (CanSend(GateOf(e.s)) \/ acquireFalse(ctx2Done(e.r, e.f, e.s)))
        \/ e.ph = "open"
        \/ e.ph = "read" /\ now >= e.dl
        \/ e.ph = "dial" /\ (now >= e.dl \/ ctx2Done(e.r, e.f, e.s))
        \/ e.ph = "sig" /\ (stg[e.r][e.f][e.s].once \/ stg[e.r][e.f][e.s].done < 1)

UrgentReq ==
    \E r \in Requests :
        \/ pc[r] = "dnsWait" /\ \A f \in Families : dns[r][f] = "done"
        \/ pc[r] \in {"litWait", "raceWait"} /\ \A f \in Families : fam[r][f] \in {"none", "done"}

Urgent == UrgentDns \/ UrgentFam \/ UrgentAtt \/ UrgentReq

\* the lookup of family f returned addresses and waits in wg.Wait() (line 212)
\* for the other lookup
LookupHeld(r, f) == pc[r] = "dnsWait" /\ dns[r][f] = "done" /\ nips[r][f] > 0

Active == att # EmptyBag \/ \E r \in Requests : pc[r] \notin {"idle", "returned"}

Tick ==
    /\ now < MaxTime
    /\ Active
    /\ ~Urgent
    /\ now' = now + 1
    /\ hist' = [r \in Requests |-> [f \in Families |->
                    [hist[r][f] EXCEPT !.held = @ \/ LookupHeld(r, f)]]]
    /\ UNCHANGED <<env, cap, sem, pc, input, start, parentDone, dns, nips, fam, stg, att, flag, res>>

Next ==
    \/ \E r \in Requests, in \in Inputs : Start(r, in)
    \/ \E r \in Requests, f \in Families : DnsAcquire(r, f)
    \/ \E r \in Requests, f \in Families : DnsAcquireFail(r, f)
    \/ \E r \in Requests, f \in Families, n \in 0..MaxAddrs : DnsLookup(r, f, n)
    \/ \E r \in Requests : DnsJoin(r)
    \/ \E r \in Requests, f \in Families, o \in {"false", "read"} : LitOpen(r, f, o)
    \/ \E r \in Requests, f \in Families, k \in PacketKinds : LitRead(r, f, k)
    \/ \E r \in Requests, f \in Families : LitReadTimeout(r, f)
    \/ \E r \in Requests, f \in Families, ok \in BOOLEAN : pingWithFamily(r, f, ok)
    \/ \E r \in Requests, f \in Families : RaceEchoStart(r, f)
    \/ \E r \in Requests, f \in Families : RaceEchoTrue(r, f)
    \/ \E r \in Requests, f \in Families : RaceEchoFalse(r, f)
    \/ \E r \in Requests, f \in Families : TcpStart(r, f)
    \/ \E r \in Requests, f \in Families : TcpTrue(r, f)
    \/ \E r \in Requests, f \in Families : TcpFalse(r, f)
    \/ \E e \in BagToSet(att) : AttAcquire(e)
    \/ \E e \in BagToSet(att) : AttAcquireFail(e)
    \/ \E e \in BagToSet(att), o \in {"false", "read"} : AttOpen(e, o)
    \/ \E e \in BagToSet(att), k \in PacketKinds : AttRead(e, k)
    \/ \E e \in BagToSet(att) : AttReadTimeout(e)
    \/ \E e \in BagToSet(att), ok \in BOOLEAN : AttDial(e, ok)
    \/ \E e \in BagToSet(att) : AttSignal(e)
    \/ \E r \in Requests : Return(r)
    \/ Tick

Spec == Init /\ [][Next]_vars

\* one request, of a caller that may cancel its context at any time
Callers == {1}

\* the cancellation arrives, as a tick does, when no local step is pending
CancelNow(r) == ~Urgent /\ Cancel(r)

NextCancel ==
    \/ \E r \in Callers, in \in Inputs : Start(r, in)
    \/ \E r \in Callers : CancelNow(r)
    \/ \E r \in Callers, f \in Families : DnsAcquire(r, f)
    \/ \E r \in Callers, f \in Families : DnsAcquireFail(r, f)
    \/ \E r \in Callers, f \in Families, n \in 0..MaxAddrs : DnsLookup(r, f, n)
    \/ \E r \in Callers : DnsJoin(r)
    \/ \E r \in Callers, f \in Families, o \in {"false", "read"} : LitOpen(r, f, o)
    \/ \E r \in Callers, f \in Families, k \in PacketKinds : LitRead(r, f, k)
    \/ \E r \in Callers, f \in Families : LitReadTimeout(r, f)
    \/ \E r \in Callers, f \in Families, ok \in BOOLEAN : pingWithFamily(r, f, ok)
    \/ \E r \in Callers, f \in Families : RaceEchoStart(r, f)
    \/ \E r \in Callers, f \in Families : RaceEchoTrue(r, f)
    \/ \E r \in Callers, f \in Families : RaceEchoFalse(r, f)
    \/ \E r \in Callers, f \in Families : TcpStart(r, f)
    \/ \E r \in Callers, f \in Families : TcpTrue(r, f)
    \/ \E r \in Callers, f \in Families : TcpFalse(r, f)
    \/ \E e \in BagToSet(att) : AttAcquire(e)
    \/ \E e \in BagToSet(att) : AttAcquireFail(e)
    \/ \E e \in BagToSet(att), o \in {"false", "read"} : AttOpen(e, o)
    \/ \E e \in BagToSet(att), k \in PacketKinds : AttRead(e, k)
    \/ \E e \in BagToSet(att) : AttReadTimeout(e)
    \/ \E e \in BagToSet(att), ok \in BOOLEAN : AttDial(e, ok)
    \/ \E e \in BagToSet(att) : AttSignal(e)
    \/ \E r \in Callers : Return(r)
    \/ Tick

SpecCancel == Init /\ [][NextCancel]_vars

\* one request whose caller does not cancel
NextOne ==
    \/ \E r \in Callers, in \in Inputs : Start(r, in)
    \/ \E r \in Callers, f \in Families : DnsAcquire(r, f)
    \/ \E r \in Callers, f \in Families : DnsAcquireFail(r, f)
    \/ \E r \in Callers, f \in Families, n \in 0..MaxAddrs : DnsLookup(r, f, n)
    \/ \E r \in Callers : DnsJoin(r)
    \/ \E r \in Callers, f \in Families, o \in {"false", "read"} : LitOpen(r, f, o)
    \/ \E r \in Callers, f \in Families, k \in PacketKinds : LitRead(r, f, k)
    \/ \E r \in Callers, f \in Families : LitReadTimeout(r, f)
    \/ \E r \in Callers, f \in Families, ok \in BOOLEAN : pingWithFamily(r, f, ok)
    \/ \E r \in Callers, f \in Families : RaceEchoStart(r, f)
    \/ \E r \in Callers, f \in Families : RaceEchoTrue(r, f)
    \/ \E r \in Callers, f \in Families : RaceEchoFalse(r, f)
    \/ \E r \in Callers, f \in Families : TcpStart(r, f)
    \/ \E r \in Callers, f \in Families : TcpTrue(r, f)
    \/ \E r \in Callers, f \in Families : TcpFalse(r, f)
    \/ \E e \in BagToSet(att) : AttAcquire(e)
    \/ \E e \in BagToSet(att) : AttAcquireFail(e)
    \/ \E e \in BagToSet(att), o \in {"false", "read"} : AttOpen(e, o)
    \/ \E e \in BagToSet(att), k \in PacketKinds : AttRead(e, k)
    \/ \E e \in BagToSet(att) : AttReadTimeout(e)
    \/ \E e \in BagToSet(att), ok \in BOOLEAN : AttDial(e, ok)
    \/ \E e \in BagToSet(att) : AttSignal(e)
    \/ \E r \in Callers : Return(r)
    \/ Tick

\* a step of a goroutine that exists, or the passing of time: every step but
\* the arrival of the request
Progress == NextOne /\ \A r \in Callers : pc[r] = "idle" => pc'[r] = "idle"

\* the Go scheduler runs every runnable goroutine, every blocking call has
\* a deadline, and time passes
FairSpec == Init /\ [][NextOne]_vars /\ WF_vars(Progress)

\* ---- process start: init (main.go 46-50) for any environment ----
Strings(n) == UNION {[1..k -> EnvChars] : k \in 0..n}

EnvValues == {Unset} \cup {SetTo(v) : v \in Strings(MaxLen)}

\* before init has run: one of the three variables has any value, no channel
\* is made and no request is served yet
InitEnv ==
    /\ now = 0
    /\ sem = [g \in Gates |-> 0]
    /\ pc = [r \in Requests |-> "idle"]
    /\ input = [r \in Requests |-> "dom"]
    /\ start = [r \in Requests |-> 0]
    /\ parentDone = [r \in Requests |-> FALSE]
    /\ dns = [r \in Requests |-> [f \in Families |-> "none"]]
    /\ nips = [r \in Requests |-> [f \in Families |-> 0]]
    /\ fam = [r \in Requests |-> [f \in Families |-> "none"]]
    /\ stg = [r \in Requests |-> [f \in Families |-> [s \in Stages |-> NoStage]]]
    /\ att = EmptyBag
    /\ flag = [r \in Requests |-> [f \in Families |-> 0]]
    /\ res = [r \in Requests |-> [f \in Families |-> "no"]]
    /\ hist = [r \in Requests |-> [f \in Families |-> NoHist]]
    /\ \E g \in Gates, x \in EnvValues : env = [h \in Gates |-> IF h = g THEN x ELSE Unset]
    /\ cap = [g \in Gates |-> 0]

\* func init: the three channels are made with the capacities of getEnvInt
init ==
    /\ \A g \in Gates : cap[g] = 0
    /\ cap' = [g \in Gates |-> getEnvInt(env[g], Default(g))]
    /\ UNCHANGED <<now, sem, pc, input, start, parentDone, dns, nips, fam, stg, att, flag,
                   res, hist, env>>

NextEnv == init

SpecEnv == InitEnv /\ [][NextEnv]_vars

\* ---- types ----
TypeOK ==
    /\ now \in 0..MaxTime
    /\ \A g \in Gates : sem[g] \in Int
    /\ \A r \in Requests : pc[r] \in {"idle", "dnsWait", "litWait", "raceWait", "returned"}

\* ---- counting goroutines ----
Cnt(e) == CopiesIn(e, att)

\* attempts of stage s that are in one of the phases phs
NumAtt(s, phs) == Sum(Cnt, {e \in BagToSet(att) : e.s = s /\ e.ph \in phs})

NumLookups == Cardinality({x \in Requests \X Families : dns[x[1]][x[2]] = "lookup"})

NumLiteralProbes ==
    Cardinality({x \in Requests \X Families : fam[x[1]][x[2]] \in {"icmp_open", "icmp_read"}})

\* goroutines that acquired a slot of gate g and have not released it
Holders(g) ==
    CASE g = "DNS" -> NumLookups
      [] g = "ICMP" -> NumAtt("icmp", {"open", "read", "sig"})
      [] OTHER -> NumAtt("tcp", {"dial", "sig"})

\* ---------------------------------------------------------------------------
\* C3: for every gate, in every reachable state, the number of slots held
\* (acquired and not yet released) is at most the capacity of the gate.
C3_GateBound == \A g \in Gates : Holders(g) <= Capacity(g) /\ sem[g] <= Capacity(g)

\* a gate is full while another goroutine asks for a slot
C3_Witness ==
    /\ sem["ICMP"] = CapICMP
    /\ Holders("ICMP") = CapICMP
    /\ NumAtt("icmp", {"acq"}) > 0

\* C4 (as claimed): the ICMP probes in flight over all requests, literal or
\* domain, never exceed the ICMP capacity; likewise lookups and connects.
InFlightICMP == NumAtt("icmp", {"open", "read"}) + NumLiteralProbes

C4_Original ==
    /\ InFlightICMP <= CapICMP
    /\ NumLookups <= CapDNS
    /\ NumAtt("tcp", {"dial"}) <= CapTCP

\* C5: an acquire ends no later than the context it was given: once that
\* context is done, a goroutine blocked in acquire can return false whatever
\* the state of the gate, and it does so before time advances.
ExpiredWaiters == {e \in BagToSet(att) : e.ph = "acq" /\ ctx2Done(e.r, e.f, e.s)}

ExpiredLookups == {x \in Requests \X Families : dns[x[1]][x[2]] = "acq" /\ ctxDone(x[1])}

CanReturnFalse ==
    /\ \A e \in ExpiredWaiters : ENABLED AttAcquireFail(e)
    /\ \A x \in ExpiredLookups : ENABLED DnsAcquireFail(x[1], x[2])

C5_AcquireEndsWithContext ==
    [][(ExpiredWaiters # {} \/ ExpiredLookups # {}) => (CanReturnFalse /\ now' = now)]_vars

\* the gate is full, an attempt is blocked in acquire and its context is done
C5_Witness ==
    \E e \in ExpiredWaiters : ~CanSend(GateOf(e.s)) /\ ctx2Expired(e.r, e.f, e.s)

\* C6: every slot of a gate is held by exactly one goroutine that acquired it
\* and has not yet run its deferred release: a successful acquire is followed
\* by one release, and an attempt whose acquire returned false releases nothing.
C6_ReleaseOncePerAcquire == \A g \in Gates : sem[g] = Holders(g)

\* one attempt acquired a slot, succeeded and is about to release it, while
\* another attempt of the same gate is about to return false from acquire
C6_Witness ==
    \E e \in ExpiredWaiters :
        /\ sem[GateOf(e.s)] = Capacity(GateOf(e.s))
        /\ \E h \in BagToSet(att) : h.s = e.s /\ h.ph = "sig"

\* C7: detectAndPing returns no later than the 5 s ceiling after it started.
Running(r) == pc[r] \notin {"idle", "returned"}

C7_ReturnsByCeiling == \A r \in Requests : Running(r) => now <= start[r] + Overall

\* every stage of a family ran to its timeout and the request is at its ceiling
C7_Witness ==
    \E r \in Requests, f \in Families :
        /\ Running(r)
        /\ now = start[r] + Overall
        /\ hist[r][f].icmp = "false"
        /\ hist[r][f].tcp = "false"
        /\ hist[r][f].ping = "running"

\* C8 (as claimed): within one family no TCP attempt is launched before the
\* ICMP stage returned false, the system ping is not invoked before the TCP
\* stage returned false, and no later stage starts once a stage returned true.
C8_Original ==
    \A r \in Requests, f \in Families :
        LET h == hist[r][f] IN
        /\ h.tcp # "none" => h.icmp = "false"
        /\ h.ping # "none" => h.tcp = "false"
        /\ h.icmp = "true" => (h.tcp = "none" /\ h.ping = "none")
        /\ h.tcp = "true" => h.ping = "none"

\* C10: when an attempt of the ICMP stage succeeds before the stage timeout,
\* raceEcho returns true, never false: once the success is signalled on done
\* the stage can return true at once, whatever its other attempts are doing,
\* and no time passes before it has returned.
C10_FirstSuccessWins ==
    [][\A r \in Requests, f \in Families :
          /\ hist'[r][f].icmpWin => hist'[r][f].icmp # "false"
          /\ (hist[r][f].icmpWin /\ hist[r][f].icmp = "running") => now' = now
          /\ (fam[r][f] = "race_select" /\ stg[r][f]["icmp"].done > 0)
                => ENABLED RaceEchoTrue(r, f)]_vars

\* a stage with two candidates returned true while its other attempt is
\* still waiting for a slot or reading
C10_Witness ==
    \E r \in Requests, f \in Families :
        /\ nips[r][f] >= 2
        /\ hist[r][f].icmp = "true"
        /\ \E e \in BagToSet(att) : e.r = r /\ e.f = f /\ e.s = "icmp" /\ e.ph \in {"acq", "read"}

\* C1 (as claimed): the returned field of a family is `ok` if and only if an
\* attempt of its chain reported success before the overall deadline expired:
\* a success reported strictly before the deadline is never lost, and `ok` is
\* never returned without a success (a success at the very instant of the
\* deadline may go either way).
C1_Original ==
    \A r \in Requests, f \in Families :
        pc[r] = "returned" =>
            /\ hist[r][f].early => res[r][f] = "ok"
            /\ res[r][f] = "ok" => hist[r][f].succ

\* C1 (amended): the field is `ok` if and only if a stage of the chain
\* returned true, which takes an attempt that reported success; a success
\* reported before the timeout of its own stage is never lost.
StageTrue(h) == h.icmp = "true" \/ h.tcp = "true" \/ h.ping = "true"

C1_Amended ==
    \A r \in Requests, f \in Families :
        /\ StageTrue(hist[r][f]) => hist[r][f].succ
        /\ pc[r] = "returned" =>
              /\ res[r][f] = "ok" <=> StageTrue(hist[r][f])
              /\ hist[r][f].inStage => res[r][f] = "ok"

\* a domain request returned `ok` for a family after its ICMP stage timed out
\* and a connect succeeded inside the TCP stage
C1_Witness ==
    \E r \in Requests, f \in Families :
        /\ pc[r] = "returned"
        /\ input[r] = "dom"
        /\ hist[r][f].icmp = "false"
        /\ hist[r][f].inStage
        /\ res[r][f] = "ok"

\* C2 (as claimed): when the ICMP stage of a family has failed, a connect to
\* port 443 that succeeds makes the family `ok`, for a literal IP as for a
\* domain: the family is reported `no` only after its TCP stage ran and failed.
C2_Original ==
    \A r \in Requests, f \in Families :
        (pc[r] = "returned" /\ hist[r][f].icmp = "false" /\ res[r][f] = "no")
            => hist[r][f].tcp = "false"

\* C9 (as claimed): with both families probed, the field of a family is what
\* it would be if the family were probed alone, also at small gate capacity:
\* a family is never reported `no` after one of its attempts, which alone
\* would have got its slot at once, gave up on a gate whose slots the other
\* family's attempts held until the stage timeout.
C9_Original ==
    \A r \in Requests, f \in Families :
        (pc[r] = "returned" /\ res[r][f] = "no") => ~hist[r][f].starved

\* C9 (amended): the families of a domain run concurrently and couple only
\* through the shared gates: the field of a family is `ok` only by a stage of
\* its own chain, no stage of a family outlives its own timeout whatever the
\* other family does, and a family with candidates is reported `no` only
\* after its own three stages ran and returned false.
C9_Amended ==
    \A r \in Requests, f \in Families :
        input[r] = "dom" =>
            /\ \A s \in Stages :
                 hist[r][f][s] = "running" => now <= stg[r][f][s].dl
            /\ pc[r] = "returned" =>
                 /\ res[r][f] = "ok" => StageTrue(hist[r][f])
                 /\ (res[r][f] = "no" /\ nips[r][f] > 0) =>
                        /\ hist[r][f].icmp = "false"
                        /\ hist[r][f].tcp = "false"
                        /\ hist[r][f].ping = "false"

\* both families had candidates; one was starved of a gate slot by the other
\* and came out `no` after its three stages, the other came out `ok`
C9_Witness ==
    \E r \in Requests, f \in Families, g \in Families :
        /\ pc[r] = "returned"
        /\ input[r] = "dom"
        /\ nips[r][f] > 0 /\ nips[r][g] > 0
        /\ hist[r][f].starved
        /\ res[r][f] = "no"
        /\ hist[r][f].ping = "false"
        /\ res[r][g] = "ok"

\* ---------------------------------------------------------------------------
\* what the value of an environment variable denotes: the string without
\* the blanks around it, read as a decimal numeral with an optional sign
Core(v) ==
    LET I == {i \in 1..Len(v) : v[i] # " "} IN
    IF I = {} THEN <<>>
    ELSE SubSeq(v, CHOOSE i \in I : \A j \in I : i <= j, CHOOSE i \in I : \A j \in I : i >= j)

Unsigned(t) == IF t # <<>> /\ t[1] \in {"+", "-"} THEN Tail(t) ELSE t

IsNumeral(t) == Unsigned(t) # <<>> /\ \A i \in 1..Len(Unsigned(t)) : IsDigit(Unsigned(t)[i])

RECURSIVE Decimal(_)
Decimal(ds) ==
    IF ds = <<>> THEN 0
    ELSE Decimal(SubSeq(ds, 1, Len(ds) - 1)) * 10 + DigitVal(ds[Len(ds)])

IntValue(x) ==
    LET t == Core(x.val) IN IF t[1] = "-" THEN 0 - Decimal(Unsigned(t)) ELSE Decimal(Unsigned(t))

IsPosInt(x) == x.set /\ IsNumeral(Core(x.val)) /\ IntValue(x) > 0

\* C15 (as claimed): each capacity equals the value of its variable when
\* that value is a positive integer, and the default when the variable is
\* unset, empty or blank, non-numeric, zero or negative; it is at least 1.
C15_Original ==
    \A g \in Gates :
        cap[g] # 0 =>
            /\ IsPosInt(env[g]) => cap[g] = IntValue(env[g])
            /\ ~IsPosInt(env[g]) => cap[g] = Default(g)
            /\ cap[g] >= 1

\* C15 (amended): the capacity is the value of the variable when that value
\* is a positive integer within the range of int, and the default otherwise,
\* also for a positive integer beyond that range; it is at least 1.
C15_Amended ==
    \A g \in Gates :
        cap[g] # 0 =>
            /\ (IsPosInt(env[g]) /\ IntValue(env[g]) <= MaxInt) => cap[g] = IntValue(env[g])
            /\ (IsPosInt(env[g]) /\ IntValue(env[g]) > MaxInt) => cap[g] = Default(g)
            /\ ~IsPosInt(env[g]) => cap[g] = Default(g)
            /\ cap[g] >= 1

\* init has run with a variable set to a positive integer beyond the range
\* of int and made the channel with the default capacity
C15_Witness ==
    \E g \in Gates :
        /\ cap[g] = Default(g)
        /\ IsPosInt(env[g])
        /\ IntValue(env[g]) > MaxInt

\* C11: for a literal IPv4 input the ipv6 field is `no` and for a literal
\* IPv6 input the ipv4 field is `no`: only the chain of the input's own
\* family is launched and only that family's flag can be set.
OtherFamily(f) == IF f = "4" THEN "6" ELSE "4"

C11_LiteralOtherFamilyNo ==
    \A r \in Requests :
        (pc[r] # "idle" /\ input[r] # "dom") =>
            LET o == OtherFamily(FamilyOf(input[r])) IN
            /\ res[r][o] = "no"
            /\ flag[r][o] = 0
            /\ fam[r][o] = "none"
            /\ hist[r][o] = NoHist
            /\ \A e \in BagToSet(att) : e.r # r

\* a literal IPv4 and a literal IPv6 request have both returned `ok` for
\* their own family
C11_Witness ==
    \E r \in Requests, q \in Requests :
        /\ pc[r] = "returned" /\ input[r] = "lit4" /\ res[r]["4"] = "ok"
        /\ pc[q] = "returned" /\ input[q] = "lit6" /\ res[q]["6"] = "ok"

\* the lookups of request r have ended and family g has no address
EmptyFamily(r, g) ==
    input[r] = "dom" /\ pc[r] \in {"raceWait", "returned"} /\ nips[r][g] = 0

NothingLaunched(r, g) ==
    /\ res[r][g] = "no"
    /\ flag[r][g] = 0
    /\ fam[r][g] = "none"
    /\ hist[r][g] = NoHist
    /\ \A e \in BagToSet(att) : ~(e.r = r /\ e.f = g)

\* C12 (as claimed): for a domain of which one family resolves to no address,
\* that family's field is `no` and none of its stages is launched, and the
\* other family is probed as if the empty family had not been looked up: its
\* racer does not wait for the lookup of the empty family.
C12_Original ==
    \A r \in Requests, g \in Families :
        EmptyFamily(r, g) =>
            /\ NothingLaunched(r, g)
            /\ ~hist[r][OtherFamily(g)].held

\* C12 (amended): the field of the empty family is `no` and none of its
\* stages is launched; the racer of the other family is started when both
\* lookups have ended, so it may have waited for the lookup that came back
\* empty, and its field is `ok` or `no` by its own chain.
C12_Amended ==
    \A r \in Requests, g \in Families :
        EmptyFamily(r, g) =>
            LET f == OtherFamily(g) IN
            /\ NothingLaunched(r, g)
            /\ nips[r][f] > 0 => (hist[r][f].icmp # "none" \/ fam[r][f] = "race_start")
            /\ pc[r] = "returned" => (res[r][f] = "ok" <=> StageTrue(hist[r][f]))

\* one lookup came back empty, the other family was probed and is `ok`
C12_Witness ==
    \E r \in Requests, g \in Families :
        /\ EmptyFamily(r, g)
        /\ pc[r] = "returned"
        /\ nips[r][OtherFamily(g)] > 0
        /\ res[r][OtherFamily(g)] = "ok"
        /\ res[r][g] = "no"

\* C13: detectAndPing returns a result whose two fields are each `ok` or
\* `no`: whatever failed inside it, a field is `no` exactly when its flag was
\* not set, and there is no error, missing field or third value.
C13_TwoValuedResult ==
    \A r \in Requests :
        /\ DOMAIN res[r] = Families
        /\ \A f \in Families :
            /\ res[r][f] \in {"ok", "no"}
            /\ flag[r][f] \in {0, 1}
            /\ pc[r] = "returned" => (res[r][f] = "no" <=> flag[r][f] = 0)
            /\ pc[r] # "returned" => res[r][f] = "no"

\* a domain request returned at its deadline: one family has no address (its
\* lookup failed or was denied the DNS gate), the three stages of the other
\* one failed, and both fields are `no`
C13_Witness ==
    \E r \in Requests, f \in Families :
        /\ pc[r] = "returned"
        /\ input[r] = "dom"
        /\ now >= ctxDeadline(r)
        /\ nips[r][OtherFamily(f)] = 0
        /\ hist[r][f].icmp = "false" /\ hist[r][f].tcp = "false" /\ hist[r][f].ping = "false"
        /\ res[r][f] = "no" /\ res[r][OtherFamily(f)] = "no"

\* C14 (as claimed): when the caller's context is cancelled before the 5 s
\* timeout, detectAndPing returns at that moment, on the literal-IP path as
\* on the domain path: no time passes while a cancelled call is running.
C14_Original ==
    [][\A r \in Requests : (parentDone[r] /\ Running(r)) => now' = now]_vars

\* C16 (as claimed): an ICMP probe returns true only on the echo reply that
\* answers its own request; a reply that belongs to another probe or to
\* unrelated traffic is discarded and the probe keeps reading.
C16_Original ==
    \A e \in BagToSet(att) :
        (e.s = "icmp" /\ e.ph = "sig") => e.pkt = "own_reply"

\* C17 (as claimed): when every ICMP attempt of a stage has failed because
\* the raw socket could not be opened, the stage yields false and the next
\* stage starts at once: no time passes while raceEcho has no attempt left
\* and no success to read.
C17_Original ==
    [][\A r \in Requests, f \in Families :
          (/\ fam[r][f] = "race_select"
           /\ stg[r][f]["icmp"].done = 0
           /\ \A e \in BagToSet(att) : ~(e.r = r /\ e.f = f /\ e.s = "icmp"))
          => now' = now]_vars

\* C18 (as claimed): for a literal IP as for a domain, an ICMP stage without
\* a success yields false no later than the 2.2 s stage timeout after it
\* started.
StageStart(r, f) ==
    IF input[r] = "dom" THEN stg[r][f]["icmp"].dl - StageTimeout ELSE start[r]

C18_Original ==
    \A r \in Requests, f \in Families :
        (hist[r][f].icmp = "running" /\ (input[r] = "dom" => fam[r][f] = "race_select"))
            => now <= StageStart(r, f) + StageTimeout

\* C19: in each race stage at most one value is ever sent on done: a send
\* is the first call of once.Do and finds the buffer empty; an attempt that
\* succeeded, also after the winner or after the stage returned, can always
\* finish and release its slot without blocking on the signal.
C19_SignalOnce ==
    [][/\ \A r \in Requests, f \in Families, s \in Stages :
            /\ stg'[r][f][s].done <= 1
            /\ stg'[r][f][s].done > stg[r][f][s].done
                  => (~stg[r][f][s].once /\ stg'[r][f][s].once /\ stg[r][f][s].done = 0)
       /\ \A e \in BagToSet(att) : e.ph = "sig" => ENABLED AttSignal(e)]_vars

\* an attempt has succeeded after another attempt of its stage has already
\* sent the signal
C19_Witness ==
    \E e \in BagToSet(att) : e.ph = "sig" /\ stg[e.r][e.f][e.s].once

\* C20: for a domain input no attempt of a Family Racer, of either family,
\* is started before both lookups of the request have finished or given up.
RacerStarted(r) ==
    \/ \E f \in Families : fam[r][f] # "none" \/ hist[r][f].icmp # "none"
    \/ \E e \in BagToSet(att) : e.r = r

C20_RacersAfterLookups ==
    \A r \in Requests :
        (pc[r] # "idle" /\ input[r] = "dom" /\ RacerStarted(r))
            => \A g \in Families : dns[r][g] = "done"

\* one lookup ran to the deadline and came back empty, the other had
\* returned addresses before, and the racer of that family has started
C20_Witness ==
    \E r \in Requests, f \in Families :
        /\ pc[r] = "raceWait"
        /\ input[r] = "dom"
        /\ now >= ctxDeadline(r)
        /\ sem["DNS"] = 0
        /\ nips[r][f] > 0 /\ nips[r][OtherFamily(f)] = 0
        /\ hist[r][f].icmp = "running"

\* C21 (as claimed): the A and the AAAA lookup of a request never block
\* each other, also at DNS capacity 1: no time passes while one lookup waits
\* for its slot and the other lookup of the same request is running.
C21_Original ==
    [][\A r \in Requests, f \in Families :
          (dns[r][f] = "acq" /\ dns[r][OtherFamily(f)] = "lookup") => now' = now]_vars

\* C21 (amended): the two lookups wait for each other only through the DNS
\* gate: a lookup starts at once whenever the gate has a free slot, whatever
\* the other lookup does, a started lookup can end whatever the other does,
\* and a lookup only waits while the gate is full.
C21_Amended ==
    [][\A r \in Requests, f \in Families :
          /\ (dns[r][f] = "acq" /\ CanSend("DNS"))
                => (ENABLED DnsAcquire(r, f) /\ now' = now)
          /\ dns[r][f] = "lookup" => ENABLED DnsLookup(r, f, 0)
          /\ (dns[r][f] = "acq" /\ now' # now) => sem["DNS"] = Capacity("DNS")]_vars

\* the gate is full with the running lookup of a request, whose other lookup
\* has been waiting for the slot for some time
C21_Witness ==
    \E r \in Requests, f \in Families :
        /\ dns[r][f] = "acq"
        /\ dns[r][OtherFamily(f)] = "lookup"
        /\ ~CanSend("DNS")
        /\ now > start[r]

\* C22 (as claimed): per request and per family the system ping is invoked at
\* most once, only after every earlier stage of the family (the ICMP stage
\* and the TCP stage) has returned false, with the input string of the
\* request and the tag of the family, and when it was invoked its result
\* alone decides the field of the family.
C22_Original ==
    \A r \in Requests, f \in Families :
        LET h == hist[r][f] IN
        /\ h.pings <= 1
        /\ h.ping # "none" =>
              /\ h.icmp = "false" /\ h.tcp = "false"
              /\ h.pingHost = "input" /\ h.pingTag = f
        /\ (pc[r] = "returned" /\ h.ping # "none") =>
              (res[r][f] = "ok" <=> h.ping = "true")


\* the attempts launched by request r whose goroutine has not returned
AttemptsOf(r) == {e \in BagToSet(att) : e.r = r}

\* C23 (as claimed): at the moment detectAndPing returns nothing created for
\* the request is still alive: no ICMP or TCP attempt goroutine launched by
\* the request is still running, and no gate slot acquired on behalf of the
\* request is still held.
C23_Original ==
    \A r \in Requests : pc[r] = "returned" => AttemptsOf(r) = {}

\* C23 (amended): once detectAndPing has returned, the lookups and the family
\* goroutines of the request have finished, and every attempt of the request
\* that is still running is an abandoned attempt of a stage whose context
\* is done; it ends without waiting any further, unless it is blocked in the
\* socket read of doICMP, where it ends, and releases its ICMP slot, no later
\* than the deadline of its stage, which is no later than the overall
\* deadline of the request.
C23_Amended ==
    [][\A r \in Requests :
          pc[r] = "returned" =>
              /\ \A f \in Families :
                    fam[r][f] \in {"none", "done"} /\ dns[r][f] \notin {"acq", "lookup"}
              /\ \A e \in AttemptsOf(r) :
                    /\ ctx2Done(e.r, e.f, e.s)
                    /\ e.ph = "read" =>
                          /\ now <= e.dl
                          /\ e.dl <= ctxDeadline(r)
                          /\ now = e.dl => ENABLED AttReadTimeout(e)
                    /\ e.ph # "read" => now' = now]_vars

\* a request has returned while one of its attempts is still blocked in the
\* socket read, before its deadline, holding a slot of the ICMP gate
C23_Witness ==
    \E r \in Requests :
        /\ pc[r] = "returned"
        /\ \E e \in AttemptsOf(r) : e.ph = "read" /\ now < e.dl
        /\ sem["ICMP"] > 0


\* C24: no gate slot leaks: under fair scheduling every slot that was
\* acquired is released, so that from some moment on, when the request has
\* returned and its abandoned attempts have run out their deadlines, the
\* held count of each of the three gates is 0 and stays 0, and no goroutine
\* holds a slot.
C24_NoSlotLeak == <>[](\A g \in Gates : sem[g] = 0 /\ Holders(g) = 0)

\* every request has returned and an abandoned attempt still holds a slot
C24_Witness ==
    /\ \A r \in Callers : pc[r] = "returned"
    /\ \E e \in BagToSet(att) : e.ph = "read" /\ now < e.dl
    /\ sem["ICMP"] > 0

====
